---- MODULE Spec2Model ----
(***************************************************************************)
(* iox2::container::StaticString<N>: a string with fixed static capacity   *)
(* and contiguous inplace storage (static_string.hpp).                     *)
(*                                                                         *)
(* A string object is a record [N, m_string, m_size]: N is the template    *)
(* argument, m_string the array char[N + 1] as a function on 0..N, m_size  *)
(* the uint64_t length field.  A char is kept as its object representation *)
(* (a byte 0..255); CharValue gives the value the comparisons of the code  *)
(* see, which depends on whether char is signed on the platform.           *)
(***************************************************************************)
EXTENDS Integers, Sequences, FiniteSets

\* Largest template argument N the objects are instantiated with.
MaxCap == 2
\* Largest length M of a source character array handed to a factory.
MaxSrc == 3
\* Number of readable bytes that may follow an unterminated source buffer.
MaxAdj == 1
\* Largest number of writes through UncheckedAccessor::operator[] in a run.
MaxRawWrites == 1

\* Named string objects of the client: the string under test and an operand.
Objs == {"sut", "other"}

\* Representative object representations of char: the terminator, both ends
\* of the accepted range, and the first byte above it (negative as signed char).
Bytes == {0, 1, 127, 128}

Caps == 0..MaxCap

VARIABLES
    char_is_signed, \* std::numeric_limits<char>::is_signed of the platform
    str,            \* the string objects, by name
    live,           \* the objects that have been constructed
    call,           \* the last call of the client and what it returned
    hist,           \* history of "sut": bytes appended and not yet removed
    raw_writes,     \* number of writes made through the unchecked accessor
    running         \* FALSE once the process has faulted

vars == <<char_is_signed, str, live, call, hist, raw_writes, running>>

----------------------------------------------------------------------------
(* Optional<T> *)

nullopt == [has_value |-> FALSE]

Optional(v) == [has_value |-> TRUE, value |-> v]

----------------------------------------------------------------------------
(* char *)

\* The value of a char whose object representation is the byte b.
CharValue(b) == IF char_is_signed /\ b >= 128 THEN b - 256 ELSE b

CODE_UNIT_UPPER_BOUND == 127

is_valid_next_accepts_zero(character) ==
    (CharValue(character) >= 0) /\ (CharValue(character) <= CODE_UNIT_UPPER_BOUND)

is_valid_next(character) ==
    (CharValue(character) > 0) /\ (CharValue(character) <= CODE_UNIT_UPPER_BOUND)

----------------------------------------------------------------------------
(* StaticString<N> *)

StaticString_no_terminator_slot(N) ==
    [N |-> N, m_string |-> [i \in 0..(N - 1) |-> 0], m_size |-> 0]

\* char m_string[N + 1] = {}; uint64_t m_size = 0;
StaticString(N) ==
    [N |-> N, m_string |-> [i \in 0..N |-> 0], m_size |-> 0]

capacity(self) == self.N

size(self) == self.m_size

empty(self) == size(self) = 0

try_push_back_off_by_one(self, character) ==
    IF (self.m_size <= self.N) /\ is_valid_next(character)
    THEN [ret  |-> TRUE,
          self |-> [self EXCEPT !.m_string[self.m_size] = character,
                                !.m_size = self.m_size + 1]]
    ELSE [ret |-> FALSE, self |-> self]

try_push_back_writes_first(self, character) ==
    IF (self.m_size < self.N) /\ is_valid_next(character)
    THEN [ret  |-> TRUE,
          self |-> [self EXCEPT !.m_string[self.m_size] = character,
                                !.m_size = self.m_size + 1]]
    ELSE [ret  |-> FALSE,
          self |-> [self EXCEPT !.m_string[self.m_size] = character]]

try_push_back_keeps_size(self, character) ==
    IF (self.m_size < self.N) /\ is_valid_next(character)
    THEN [ret  |-> TRUE,
          self |-> [self EXCEPT !.m_string[self.m_size] = character]]
    ELSE [ret |-> FALSE, self |-> self]

\* Returns the bool of the code and the object after the call.
try_push_back(self, character) ==
    IF (self.m_size < self.N) /\ is_valid_next(character)
    THEN [ret  |-> TRUE,
          self |-> [self EXCEPT !.m_string[self.m_size] = character,
                                !.m_size = self.m_size + 1]]
    ELSE [ret |-> FALSE, self |-> self]

try_pop_back_zeroes_terminator(self) ==
    IF self.m_size > 0
    THEN [ret  |-> TRUE,
          self |-> [self EXCEPT !.m_string[self.m_size] = 0,
                                !.m_size = self.m_size - 1]]
    ELSE [ret |-> FALSE, self |-> self]

try_pop_back_keeps_byte(self) ==
    IF self.m_size > 0
    THEN [ret  |-> TRUE, self |-> [self EXCEPT !.m_size = self.m_size - 1]]
    ELSE [ret |-> FALSE, self |-> self]

try_pop_back(self) ==
    IF self.m_size > 0
    THEN [ret  |-> TRUE,
          self |-> [self EXCEPT !.m_string[self.m_size - 1] = 0,
                                !.m_size = self.m_size - 1]]
    ELSE [ret |-> FALSE, self |-> self]

\* StaticString(StaticString const&) = default: memberwise copy of all N + 1
\* bytes and of the length field.
CopyConstruct(rhs) == rhs

WideningCopy_drops_last(N, rhs) ==
    [N        |-> N,
     m_string |-> [i \in 0..N |-> IF i + 1 < rhs.m_size THEN rhs.m_string[i] ELSE 0],
     m_size   |-> rhs.m_size]

\* template <uint64_t M, enable_if_t<(N >= M)>> StaticString(StaticString<M> const& rhs):
\* m_string takes its default member initializer, then m_size bytes are copied.
WideningCopy(N, rhs) ==
    [N        |-> N,
     m_string |-> [i \in 0..N |-> IF i < rhs.m_size THEN rhs.m_string[i] ELSE 0],
     m_size   |-> rhs.m_size]

\* The loop of from_utf8 over the M - 1 payload elements; utf8_str[i] of the
\* code is element i + 1 of the sequence.
RECURSIVE from_utf8_loop(_, _, _)
from_utf8_loop(ret, utf8_str, i) ==
    IF i < Len(utf8_str) - 1
    THEN LET pushed == try_push_back(ret, utf8_str[i + 1])
         IN  IF ~pushed.ret
             THEN nullopt
             ELSE from_utf8_loop(pushed.self, utf8_str, i + 1)
    ELSE Optional(ret)

from_utf8_no_terminator_check(N, utf8_str) ==
    from_utf8_loop(StaticString(N), utf8_str, 0)

from_utf8(N, utf8_str) ==
    IF utf8_str[Len(utf8_str)] # 0
    THEN nullopt
    ELSE from_utf8_loop(StaticString(N), utf8_str, 0)

\* The while loop of from_utf8_null_terminated_unchecked over mem, the bytes
\* readable from the pointer on.  i is the offset of utf8_str from its start.
\* Dereferencing the pointer beyond mem faults.  examined counts the bytes read.
RECURSIVE null_terminated_loop_truncating(_, _, _)
null_terminated_loop_truncating(ret, mem, i) ==
    IF i >= Len(mem)
    THEN [fault |-> TRUE, opt |-> nullopt, examined |-> i]
    ELSE IF mem[i + 1] = 0
    THEN [fault |-> FALSE, opt |-> Optional(ret), examined |-> i + 1]
    ELSE LET pushed == try_push_back(ret, mem[i + 1])
         IN  IF ~pushed.ret
             THEN [fault |-> FALSE, opt |-> Optional(ret), examined |-> i + 1]
             ELSE null_terminated_loop_truncating(pushed.self, mem, i + 1)

RECURSIVE null_terminated_loop_scans_on(_, _, _)
null_terminated_loop_scans_on(ret, mem, i) ==
    IF i >= Len(mem)
    THEN [fault |-> TRUE, opt |-> nullopt, examined |-> i]
    ELSE IF mem[i + 1] = 0
    THEN [fault |-> FALSE, opt |-> Optional(ret), examined |-> i + 1]
    ELSE LET pushed == try_push_back(ret, mem[i + 1])
         IN  IF ~pushed.ret
             THEN LET rest == null_terminated_loop_scans_on(ret, mem, i + 1)
                  IN  [fault |-> rest.fault, opt |-> nullopt,
                       examined |-> rest.examined]
             ELSE null_terminated_loop_scans_on(pushed.self, mem, i + 1)

RECURSIVE null_terminated_loop(_, _, _)
null_terminated_loop(ret, mem, i) ==
    IF i >= Len(mem)
    THEN [fault |-> TRUE, opt |-> nullopt, examined |-> i]
    ELSE IF mem[i + 1] = 0
    THEN [fault |-> FALSE, opt |-> Optional(ret), examined |-> i + 1]
    ELSE LET pushed == try_push_back(ret, mem[i + 1])
         IN  IF ~pushed.ret
             THEN [fault |-> FALSE, opt |-> nullopt, examined |-> i + 1]
             ELSE null_terminated_loop(pushed.self, mem, i + 1)

from_utf8_null_terminated_unchecked(N, mem) ==
    null_terminated_loop(StaticString(N), mem, 0)

\* OptionalReference: the reference is kept as the index of the slot of
\* m_string it refers to.
element_at_inclusive(self, index) ==
    IF index <= self.m_size THEN Optional(index) ELSE nullopt

element_at(self, index) ==
    IF index < self.m_size THEN Optional(index) ELSE nullopt

front_element(self) ==
    IF ~empty(self) THEN Optional(0) ELSE nullopt

back_element(self) ==
    IF ~empty(self) THEN Optional(size(self) - 1) ELSE nullopt

\* The char a present OptionalReference of self refers to.
Deref(self, ref) == self.m_string[ref.value]

\* UncheckedAccessor / UncheckedConstAccessor: begin() and end() as offsets
\* into m_string, operator[] as a read and as a write through the reference.
unchecked_begin(self) == 0

unchecked_end(self) == self.m_size

unchecked_read(self, index) == self.m_string[index]

unchecked_write_validating(self, index, character) ==
    IF is_valid_next(character)
    THEN [self EXCEPT !.m_string[index] = character]
    ELSE self

unchecked_write(self, index, character) ==
    [self EXCEPT !.m_string[index] = character]

\* The while loop of operator==, lhs_it and rhs_it as offsets.
RECURSIVE operator_eq_loop(_, _, _, _)
operator_eq_loop(lhs, rhs, lhs_it, rhs_it) ==
    IF lhs_it # unchecked_end(lhs)
    THEN IF ~(unchecked_read(lhs, lhs_it) = unchecked_read(rhs, rhs_it))
         THEN FALSE
         ELSE operator_eq_loop(lhs, rhs, lhs_it + 1, rhs_it + 1)
    ELSE TRUE

operator_eq_whole_storage(lhs, rhs) ==
    lhs.m_size = rhs.m_size /\ lhs.m_string = rhs.m_string

\* friend operator==(StaticString const& lhs, StaticString const& rhs), both
\* of the same N.
operator_eq(lhs, rhs) ==
    IF lhs.m_size # rhs.m_size
    THEN FALSE
    ELSE operator_eq_loop(lhs, rhs, unchecked_begin(lhs), unchecked_begin(rhs))

\* lhs == rhs as the compiler resolves it: the operator== of the larger
\* capacity is the only viable one, its other operand converted by the
\* widening constructor.
Equals(lhs, rhs) ==
    IF lhs.N = rhs.N THEN operator_eq(lhs, rhs)
    ELSE IF lhs.N < rhs.N THEN operator_eq(WideningCopy(rhs.N, lhs), rhs)
    ELSE operator_eq(lhs, WideningCopy(lhs.N, rhs))

----------------------------------------------------------------------------
(* The client: calls on the named objects.  "sut" is declared first, by the *)
(* first call of the program to a factory or by default; an object that is  *)
(* not live holds StaticString(N).                                          *)

\* Source character arrays char const (&)[M], 1 <= M <= MaxSrc.
Sources == UNION {[1..M -> Bytes] : M \in 1..MaxSrc}

\* What may be readable behind a source buffer that holds no terminator.
Adjacent == UNION {[1..K -> Bytes] : K \in 0..MaxAdj}

Indices == 0..(MaxCap + 1)

Untracked == [tracked |-> FALSE, bytes |-> <<>>, net |-> 0]

Fresh == [tracked |-> TRUE, bytes |-> <<>>, net |-> 0]

\* hist after o was given a value other than by push and pop.
Forget(o) == IF o = "sut" THEN Untracked ELSE hist

HistPush(o, character, ret) ==
    IF o = "sut" /\ hist.tracked /\ ret
    THEN [hist EXCEPT !.bytes = Append(@, character), !.net = @ + 1]
    ELSE hist

HistPop(o, ret) ==
    IF o = "sut" /\ hist.tracked /\ ret
    THEN [hist EXCEPT !.bytes = IF @ = <<>> THEN @ ELSE SubSeq(@, 1, Len(@) - 1),
                      !.net = @ - 1]
    ELSE hist

Init ==
    /\ char_is_signed \in BOOLEAN
    /\ str \in {[o \in Objs |-> StaticString(cap[o])] : cap \in [Objs -> Caps]}
    /\ live = {}
    /\ call = [op |-> "none"]
    /\ hist = Untracked
    /\ raw_writes = 0
    /\ running = TRUE

\* StaticString<N> sut;  or  sut = StaticString<N>();
DefaultConstruct(o) ==
    /\ running
    /\ o = "sut" \/ "sut" \in live
    /\ str' = [str EXCEPT ![o] = StaticString(str[o].N)]
    /\ live' = live \cup {o}
    /\ call' = [op |-> "StaticString", obj |-> o]
    /\ hist' = IF o = "sut" THEN Fresh ELSE hist
    /\ UNCHANGED <<char_is_signed, raw_writes, running>>

\* auto opt = StaticString<N>::from_utf8(utf8_str);  auto sut = *opt;  when
\* opt holds a value.  The call compiles only if N >= M - 1.
FromUtf8(o, utf8_str) ==
    /\ running
    /\ call.op = "none"
    /\ o \notin live
    /\ str[o].N >= Len(utf8_str) - 1
    /\ LET opt == from_utf8(str[o].N, utf8_str)
       IN  /\ call' = [op |-> "from_utf8", obj |-> o, utf8_str |-> utf8_str,
                       opt |-> opt]
           /\ str' = IF opt.has_value THEN [str EXCEPT ![o] = opt.value] ELSE str
           /\ live' = IF opt.has_value THEN live \cup {o} ELSE live
    /\ hist' = Forget(o)
    /\ UNCHANGED <<char_is_signed, raw_writes, running>>

\* auto opt = StaticString<N>::from_utf8_null_terminated_unchecked(ptr);
\* auto sut = *opt;  when opt holds a value.  ptr points to the buffer
\* utf8_str.  When the loop runs off an unterminated buffer it reads whatever
\* is adjacent, or faults.
FromUtf8NullTerminatedUnchecked(o, utf8_str) ==
    /\ running
    /\ call.op = "none"
    /\ o \notin live
    /\ \E adjacent \in
            (IF from_utf8_null_terminated_unchecked(str[o].N, utf8_str).fault
             THEN Adjacent ELSE {<<>>}) :
         LET r == from_utf8_null_terminated_unchecked(str[o].N, utf8_str \o adjacent)
         IN  /\ call' = [op       |-> "from_utf8_null_terminated_unchecked",
                         obj      |-> o,
                         utf8_str |-> utf8_str,
                         adjacent |-> adjacent,
                         fault    |-> r.fault,
                         opt      |-> r.opt,
                         examined |-> r.examined]
             /\ running' = ~r.fault
             /\ str' = IF r.opt.has_value THEN [str EXCEPT ![o] = r.opt.value] ELSE str
             /\ live' = IF r.opt.has_value THEN live \cup {o} ELSE live
    /\ hist' = Forget(o)
    /\ UNCHANGED <<char_is_signed, raw_writes>>

\* StaticString<N> other = sut;  or  other = sut;  both of the same N.
Copy(o, rhs) ==
    /\ running
    /\ rhs \in live
    /\ o # rhs
    /\ str[o].N = str[rhs].N
    /\ str' = [str EXCEPT ![o] = CopyConstruct(str[rhs])]
    /\ live' = live \cup {o}
    /\ call' = [op |-> "copy", obj |-> o, rhs |-> rhs]
    /\ hist' = Forget(o)
    /\ UNCHANGED <<char_is_signed, raw_writes, running>>

\* StaticString<N> other = sut;  or  other = sut;  sut a StaticString<M> with
\* M < N (with M = N the defaulted copy constructor is the better match, and
\* with M > N no constructor is viable).
Widen(o, rhs) ==
    /\ running
    /\ rhs \in live
    /\ str[o].N > str[rhs].N
    /\ str' = [str EXCEPT ![o] = WideningCopy(str[o].N, str[rhs])]
    /\ live' = live \cup {o}
    /\ call' = [op |-> "widening_copy", obj |-> o, rhs |-> rhs]
    /\ hist' = Forget(o)
    /\ UNCHANGED <<char_is_signed, raw_writes, running>>

TryPushBack(o, character) ==
    /\ running
    /\ o \in live
    /\ LET r == try_push_back(str[o], character)
       IN  /\ str' = [str EXCEPT ![o] = r.self]
           /\ call' = [op |-> "try_push_back", obj |-> o,
                       character |-> character, ret |-> r.ret]
           /\ hist' = HistPush(o, character, r.ret)
    /\ UNCHANGED <<char_is_signed, live, raw_writes, running>>

TryPopBack(o) ==
    /\ running
    /\ o \in live
    /\ LET r == try_pop_back(str[o])
       IN  /\ str' = [str EXCEPT ![o] = r.self]
           /\ call' = [op |-> "try_pop_back", obj |-> o, ret |-> r.ret]
           /\ hist' = HistPop(o, r.ret)
    /\ UNCHANGED <<char_is_signed, live, raw_writes, running>>

ElementAt(o, index) ==
    /\ running
    /\ o \in live
    /\ call' = [op |-> "element_at", obj |-> o, index |-> index,
                ref |-> element_at(str[o], index)]
    /\ UNCHANGED <<char_is_signed, str, live, hist, raw_writes, running>>

FrontElement(o) ==
    /\ running
    /\ o \in live
    /\ call' = [op |-> "front_element", obj |-> o, ref |-> front_element(str[o])]
    /\ UNCHANGED <<char_is_signed, str, live, hist, raw_writes, running>>

BackElement(o) ==
    /\ running
    /\ o \in live
    /\ call' = [op |-> "back_element", obj |-> o, ref |-> back_element(str[o])]
    /\ UNCHANGED <<char_is_signed, str, live, hist, raw_writes, running>>

\* bool ret = (lhs == rhs);
Compare(lhs, rhs) ==
    /\ running
    /\ lhs \in live /\ rhs \in live
    /\ call' = [op |-> "operator_eq", obj |-> lhs, rhs |-> rhs,
                ret |-> Equals(str[lhs], str[rhs])]
    /\ UNCHANGED <<char_is_signed, str, live, hist, raw_writes, running>>

\* sut.unchecked_access()[index] = character;  index within char[N + 1].
UncheckedWrite(o, index, character) ==
    /\ running
    /\ o \in live
    /\ raw_writes < MaxRawWrites
    /\ index <= str[o].N
    /\ str' = [str EXCEPT ![o] = unchecked_write(str[o], index, character)]
    /\ call' = [op |-> "unchecked_write", obj |-> o, index |-> index,
                character |-> character]
    /\ hist' = Forget(o)
    /\ raw_writes' = raw_writes + 1
    /\ UNCHANGED <<char_is_signed, live, running>>

Next ==
    \/ \E o \in Objs : DefaultConstruct(o)
    \/ \E utf8_str \in Sources : FromUtf8("sut", utf8_str)
    \/ \E utf8_str \in Sources : FromUtf8NullTerminatedUnchecked("sut", utf8_str)
    \/ \E o \in Objs, rhs \in Objs : Copy(o, rhs)
    \/ \E o \in Objs, rhs \in Objs : Widen(o, rhs)
    \/ \E o \in Objs, character \in Bytes : TryPushBack(o, character)
    \/ \E o \in Objs : TryPopBack(o)
    \/ \E o \in Objs, index \in Indices : ElementAt(o, index)
    \/ \E o \in Objs : FrontElement(o)
    \/ \E o \in Objs : BackElement(o)
    \/ \E lhs \in Objs, rhs \in Objs : Compare(lhs, rhs)

\* The client that keeps to the checked interface.
Spec == Init /\ [][Next]_vars

NextRaw ==
    \/ \E o \in Objs : DefaultConstruct(o)
    \/ \E o \in Objs, character \in Bytes : TryPushBack(o, character)
    \/ \E o \in Objs : TryPopBack(o)
    \/ \E lhs \in Objs, rhs \in Objs : Compare(lhs, rhs)
    \/ \E index \in Indices, character \in Bytes :
          UncheckedWrite("sut", index, character)

\* The client that also writes into "sut" through the unchecked accessor.
SpecRaw == Init /\ [][NextRaw]_vars

----------------------------------------------------------------------------
(* Properties *)

\* The bytes of self at the indices [0, size()), as a sequence.
Content(self) == [i \in 1..self.m_size |-> self.m_string[i - 1]]

InRange(b) == b \in 1..127

\* The four invariants of the data model, for one string.
DataModel(self) ==
    /\ self.m_size \in 0..self.N
    /\ self.m_string[self.m_size] = 0
    /\ \A i \in 0..(self.m_size - 1) : self.m_string[i] # 0
    /\ \A i \in 0..(self.m_size - 1) : InRange(self.m_string[i])

\* C1: every string built through the checked interface (default
\* construction, the two factories, copy, widening copy, try_push_back and
\* try_pop_back in any order) has 0 <= size() <= N, a zero byte at
\* storage[size()] and only bytes of [1,127], none of them zero, below size().
C1_DataModelInvariants == \A o \in live : DataModel(str[o])

\* A string that came from a factory or a copy and then lost a byte.
C1_Witness ==
    /\ call.op = "try_pop_back" /\ call.ret /\ call.obj = "sut"
    /\ ~hist.tracked
    /\ str["sut"].m_size = 1

\* C2: try_push_back(byte) returns true exactly when size() < N and byte is
\* in [1,127]; then size() grows by one, the byte sits at the old size()
\* index, the bytes below are unchanged and back_element() yields the byte.
C2_PushBackContract ==
    [][call'.op = "try_push_back" =>
        LET o == call'.obj
            c == call'.character
            before == str[o]
            after == str'[o]
        IN  /\ call'.ret <=> (before.m_size < before.N /\ InRange(c))
            /\ call'.ret =>
                 /\ after.m_size = before.m_size + 1
                 /\ after.m_string[before.m_size] = c
                 /\ \A i \in 0..(before.m_size - 1) :
                        after.m_string[i] = before.m_string[i]
                 /\ back_element(after).has_value
                 /\ Deref(after, back_element(after)) = c]_vars

\* The second byte was appended to a string of capacity 2.
C2_Witness ==
    /\ call.op = "try_push_back" /\ call.ret
    /\ str[call.obj].m_size = 2 /\ call.character = 127

\* C3: a failing try_push_back changes neither size() nor any storage byte;
\* at size() = N every try_push_back fails, whatever the byte, and on a
\* string of capacity 0 no try_push_back succeeds.
C3_PushBackFailure ==
    [][call'.op = "try_push_back" =>
        LET before == str[call'.obj]
        IN  /\ ~call'.ret => str' = str
            /\ before.m_size = before.N => ~call'.ret /\ str' = str
            /\ before.N = 0 => ~call'.ret]_vars

\* A byte of [1,127] was refused by a full string that holds bytes.
C3_Witness ==
    /\ call.op = "try_push_back" /\ ~call.ret /\ InRange(call.character)
    /\ str[call.obj].N >= 1
    /\ str[call.obj].m_size = str[call.obj].N

\* C4: try_pop_back returns true exactly when the string is not empty; then
\* size() shrinks by one, the slot removed holds the zero terminator and every
\* other slot is unchanged; on an empty string it returns false, changes
\* nothing and leaves the string empty, so that it keeps returning false.
C4_PopBackContract ==
    [][call'.op = "try_pop_back" =>
        LET o == call'.obj
            before == str[o]
            after == str'[o]
        IN  /\ call'.ret <=> before.m_size > 0
            /\ call'.ret =>
                 /\ after.m_size = before.m_size - 1
                 /\ after.m_string[before.m_size - 1] = 0
                 /\ \A i \in 0..before.N :
                        i # before.m_size - 1 => after.m_string[i] = before.m_string[i]
                 /\ \A other \in Objs \ {o} : str'[other] = str[other]
            /\ ~call'.ret => str' = str /\ empty(after)]_vars

\* The last but one byte was removed from a string built by appends.
C4_Witness ==
    /\ call.op = "try_pop_back" /\ call.ret /\ call.obj = "sut"
    /\ hist.tracked
    /\ str["sut"].m_size = 1 /\ str["sut"].m_string[1] = 0

\* C10: over any sequence of try_push_back and try_pop_back calls on a string
\* that started empty, the content is the bytes appended with success and not
\* yet removed, in the order of their append (a removal takes the byte
\* appended last); size() is the number of successful appends minus that of
\* successful removals, and empty() holds exactly when this number is 0.
C10_ContentIsHistory ==
    hist.tracked =>
        /\ "sut" \in live
        /\ Content(str["sut"]) = hist.bytes
        /\ size(str["sut"]) = hist.net
        /\ empty(str["sut"]) <=> hist.net = 0

\* Two different bytes were appended and the second one removed again.
C10_Witness ==
    /\ hist.tracked /\ hist.bytes = <<127>>
    /\ call.op = "try_pop_back" /\ call.ret /\ call.obj = "sut"
    /\ str["sut"].N = 2

\* C5: from_utf8 on a source array of M bytes yields a value exactly when the
\* payload length M - 1 is at most N, the last source byte is zero and each of
\* the first M - 1 bytes is in [1,127]; the value then has size() = M - 1 and
\* the payload as content, and otherwise nothing is returned at all.
C5_FromUtf8 ==
    call.op = "from_utf8" =>
        LET utf8_str == call.utf8_str
            M == Len(utf8_str)
            N == str[call.obj].N
            payload == SubSeq(utf8_str, 1, M - 1)
            accepted ==
                /\ M - 1 <= N
                /\ utf8_str[M] = 0
                /\ \A i \in 1..(M - 1) : InRange(utf8_str[i])
        IN  /\ call.opt.has_value <=> accepted
            /\ call.opt.has_value =>
                 /\ size(call.opt.value) = M - 1
                 /\ Content(call.opt.value) = payload
                 /\ capacity(call.opt.value) = N
                 /\ str[call.obj] = call.opt.value
            /\ ~call.opt.has_value =>
                 /\ call.opt = nullopt
                 /\ call.obj \notin live

\* A payload of two different bytes filled a string of capacity 2.
C5_Witness ==
    /\ call.op = "from_utf8" /\ call.opt.has_value
    /\ call.utf8_str = <<127, 1, 0>>
    /\ str[call.obj].N = 2

\* The offset of the first zero byte of a source, Len + 1 if it holds none.
FirstZero(utf8_str) ==
    IF \E i \in 1..Len(utf8_str) : utf8_str[i] = 0
    THEN CHOOSE i \in 1..Len(utf8_str) :
            /\ utf8_str[i] = 0
            /\ \A j \in 1..(i - 1) : utf8_str[j] # 0
    ELSE Len(utf8_str) + 1

\* C6: from_utf8_null_terminated_unchecked is all-or-nothing.  On a source
\* that holds a zero it yields a value exactly when the bytes before the
\* first zero are at most N and all in [1,127], and the content is then
\* exactly those bytes; an invalid byte or an (N+1)-th non-zero byte before
\* the first zero, wherever it stands, yields no value and never a prefix.
C6_NullTerminatedAllOrNothing ==
    call.op = "from_utf8_null_terminated_unchecked" =>
        LET utf8_str == call.utf8_str
            N == str[call.obj].N
            first == FirstZero(utf8_str)
            prefix == SubSeq(utf8_str, 1, first - 1)
            terminated == first <= Len(utf8_str)
            offending ==
                \/ \E i \in 1..Len(prefix) : ~InRange(prefix[i])
                \/ Len(prefix) > N
        IN  /\ terminated => ~call.fault /\ (call.opt.has_value <=> ~offending)
            /\ terminated /\ call.opt.has_value =>
                 /\ Content(call.opt.value) = prefix
                 /\ size(call.opt.value) = Len(prefix)
                 /\ str[call.obj] = call.opt.value
            /\ offending =>
                 /\ ~call.fault
                 /\ call.opt = nullopt
                 /\ call.obj \notin live

\* A valid first byte, then an invalid one, then the terminator: no value,
\* though the prefix alone would fit.
C6_Witness ==
    /\ call.op = "from_utf8_null_terminated_unchecked"
    /\ call.utf8_str = <<1, 128, 0>>
    /\ str[call.obj].N = 2
    /\ ~call.opt.has_value

\* What "equal" means: the same size() and the same byte at every index of
\* [0, size()).
SameContent(lhs, rhs) ==
    /\ lhs.m_size = rhs.m_size
    /\ \A i \in 0..(lhs.m_size - 1) : lhs.m_string[i] = rhs.m_string[i]

\* The strings the client holds, and what each converts to implicitly.
Values ==
    {str[o] : o \in live}
        \cup UNION {{WideningCopy(N, str[o]) : N \in (str[o].N + 1)..MaxCap} : o \in live}

\* C7: operator== on two strings of the same or of different capacities (the
\* smaller one widened) is true exactly when the sizes are equal and the bytes
\* at every index of [0, size()) are pairwise equal; capacity and the storage
\* from size() on play no part, and the relation is reflexive, symmetric and
\* transitive across capacities.
C7_Equality ==
    /\ call.op = "operator_eq" =>
          (call.ret <=> SameContent(str[call.obj], str[call.rhs]))
    /\ \A x \in Values : Equals(x, x)
    /\ \A x \in Values, y \in Values :
          /\ Equals(x, y) <=> SameContent(x, y)
          /\ Equals(x, y) <=> Equals(y, x)
    /\ \A x \in Values, y \in Values, z \in Values :
          Equals(x, y) /\ Equals(y, z) => Equals(x, z)

\* Two strings of different capacities compared equal although a write
\* through the unchecked accessor left a byte where the terminator of one was.
C7_Witness ==
    /\ call.op = "operator_eq" /\ call.ret
    /\ str[call.obj].N # str[call.rhs].N
    /\ str["sut"].m_size >= 1
    /\ str["sut"].m_string[str["sut"].m_size] # 0

\* C8: element_at(index) yields a reference to the byte at index exactly when
\* index < size() and nothing otherwise, index = size() included;
\* front_element() and back_element() yield references to the bytes at 0 and
\* at size() - 1 exactly when the string is not empty.  No reference leaves
\* [0, size()).
C8_CheckedAccess ==
    LET self == str[call.obj]
    IN  /\ call.op = "element_at" =>
              /\ call.ref.has_value <=> call.index < size(self)
              /\ call.ref.has_value => call.ref.value = call.index
              /\ ~call.ref.has_value => call.ref = nullopt
        /\ call.op = "front_element" =>
              /\ call.ref.has_value <=> ~empty(self)
              /\ call.ref.has_value => call.ref.value = 0
              /\ ~call.ref.has_value => call.ref = nullopt
        /\ call.op = "back_element" =>
              /\ call.ref.has_value <=> ~empty(self)
              /\ call.ref.has_value => call.ref.value = size(self) - 1
              /\ ~call.ref.has_value => call.ref = nullopt
        /\ call.op \in {"element_at", "front_element", "back_element"}
                /\ call.ref.has_value =>
              /\ call.ref.value \in 0..(size(self) - 1)
              /\ Deref(self, call.ref) = Content(self)[call.ref.value + 1]

\* element_at was asked for the terminator slot of a string that holds bytes.
C8_Witness ==
    /\ call.op = "element_at"
    /\ call.index = str[call.obj].m_size
    /\ str[call.obj].m_size >= 1
    /\ ~call.ref.has_value

\* C9: a widening copy of a StaticString<M> into a StaticString<N>, N >= M,
\* has the size() and the bytes of [0, size()) of its source, the zero
\* terminator at storage[size()] and all invariants of the data model, and
\* compares equal to the source; the source is unchanged, and no copy goes
\* from a larger capacity to a smaller one.
C9_WideningCopy ==
    [][call'.op = "widening_copy" =>
        LET source == str[call'.rhs]
            copy == str'[call'.obj]
        IN  /\ capacity(copy) >= capacity(source)
            /\ capacity(copy) = capacity(str[call'.obj])
            /\ size(copy) = size(source)
            /\ Content(copy) = Content(source)
            /\ copy.m_string[size(copy)] = 0
            /\ DataModel(copy)
            /\ Equals(copy, source) /\ Equals(source, copy)
            /\ str'[call'.rhs] = source]_vars

\* A string that holds a byte was widened by one capacity step.
C9_Witness ==
    /\ call.op = "widening_copy"
    /\ str[call.rhs].m_size >= 1
    /\ str[call.obj].m_size = str[call.rhs].m_size
    /\ str[call.obj].N = str[call.rhs].N + 1

\* The indices the range [begin(), end()) of the unchecked accessor covers.
UncheckedRange(self) == unchecked_begin(self)..(unchecked_end(self) - 1)

\* C11: the unchecked accessor validates nothing.  A write through its
\* operator[] stores any byte, 0 and bytes above 127 included, changes that
\* one slot only and never size(), so 0 <= size() <= N still holds afterwards
\* (the no-embedded-zero and byte-range invariants need not); its range
\* [begin(), end()) is exactly the indices [0, size()).
C11_UncheckedAccess ==
    [][/\ call'.op = "unchecked_write" =>
            LET o == call'.obj
                before == str[o]
                after == str'[o]
            IN  /\ after.m_string[call'.index] = call'.character
                /\ \A i \in 0..before.N :
                       i # call'.index => after.m_string[i] = before.m_string[i]
                /\ size(after) = size(before)
                /\ capacity(after) = capacity(before)
                /\ \A other \in Objs \ {o} : str'[other] = str[other]
       /\ \A o \in live' :
            /\ size(str'[o]) \in 0..capacity(str'[o])
            /\ UncheckedRange(str'[o]) = 0..(size(str'[o]) - 1)]_vars

\* A zero byte was written below size(): the string now has an embedded
\* terminator, with its size() unchanged and within the capacity.
C11_Witness ==
    /\ call.op = "unchecked_write" /\ call.character = 0
    /\ call.index < size(str[call.obj]) - 1
    /\ str[call.obj].m_string[call.index] = 0
    /\ ~DataModel(str[call.obj])
    /\ size(str[call.obj]) = capacity(str[call.obj])

\* C12: for a given N the representation is fixed: in every state the content
\* storage of a string has exactly the N + 1 slots 0..N and there is the one
\* length field beside it, whatever size() and the content are; capacity()
\* is N throughout, and no call changes the capacity or the slots of a string.
C12_FixedLayout ==
    [][\A o \in Objs :
         /\ DOMAIN str'[o] = {"N", "m_string", "m_size"}
         /\ DOMAIN str'[o].m_string = 0..capacity(str'[o])
         /\ Cardinality(DOMAIN str'[o].m_string) = capacity(str'[o]) + 1
         /\ str'[o].m_size \in Nat
         /\ capacity(str'[o]) = capacity(str[o])
         /\ DOMAIN str'[o].m_string = DOMAIN str[o].m_string]_vars

\* A full string of capacity 2 was copied into another of the same type.
C12_Witness ==
    /\ call.op = "copy"
    /\ capacity(str[call.obj]) = 2
    /\ size(str[call.obj]) = 2
    /\ DOMAIN str[call.obj].m_string = 0..2

\* C13: from_utf8_null_terminated_unchecked ends after examining at most the
\* N + 1 source bytes at the offsets 0..N: it stops at the first byte that is
\* zero or outside [1,127], or at the (N+1)-th byte when that one is not
\* zero, and dereferences no offset above N, also on a source without a zero.
C13_BoundedScan ==
    call.op = "from_utf8_null_terminated_unchecked" =>
        LET mem == call.utf8_str \o call.adjacent
            N == capacity(str[call.obj])
            examined == call.examined
            \* offset of the last dereference; it faulted iff call.fault
            last == IF call.fault THEN examined ELSE examined - 1
        IN  /\ examined <= N + 1
            /\ last <= N
            /\ \A i \in 1..(IF call.fault THEN examined ELSE examined - 1) :
                   InRange(mem[i])
            /\ ~call.fault =>
                 \/ mem[examined] = 0
                 \/ ~InRange(mem[examined])
                 \/ examined = N + 1
            /\ ~call.fault /\ mem[examined] # 0 => ~call.opt.has_value
            /\ call.fault => examined = Len(mem)

\* A source of N + 1 valid bytes and no zero, for N = 2: the scan stopped at
\* the third byte without a value and without leaving the buffer.
C13_Witness ==
    /\ call.op = "from_utf8_null_terminated_unchecked"
    /\ call.utf8_str = <<1, 127, 1>>
    /\ capacity(str[call.obj]) = 2
    /\ call.examined = 3
    /\ ~call.fault /\ ~call.opt.has_value

\* Every slot of self from size() up to N holds zero.
TailIsZero(self) ==
    \A i \in size(self)..capacity(self) : self.m_string[i] = 0

\* C14: without a write through the unchecked accessor, every storage slot at
\* an index of [size(), N] is zero, not only the one at size(): a removed byte
\* does not stay in storage.  Hence a successful try_push_back followed at
\* once by try_pop_back gives back the state before, size() and all N + 1
\* storage bytes.
C14_ZeroTail ==
    \A o \in live :
        /\ TailIsZero(str[o])
        /\ \A character \in Bytes :
               LET pushed == try_push_back(str[o], character)
                   popped == try_pop_back(pushed.self)
               IN  pushed.ret => popped.ret /\ popped.self = str[o]

\* Both bytes of a full string of capacity 2 were removed again.
C14_Witness ==
    /\ call.op = "try_pop_back" /\ call.ret
    /\ capacity(str[call.obj]) = 2
    /\ size(str[call.obj]) = 0
    /\ TailIsZero(str[call.obj])

====
